---- MODULE Spec2Model ----
(***************************************************************************)
(* Model of src/app.js: the POST /api/chatbot pipeline                     *)
(*   listCollections -> prompt -> model.call -> extractJSON -> validation  *)
(*   -> executeMongoQuery -> response.                                     *)
(*                                                                         *)
(* A completion text is a sequence of lexical fragments; the JavaScript    *)
(* string is their concatenation.  "{" and "}" are fragments of their own, *)
(* so indexOf / lastIndexOf / substring act on fragment positions exactly  *)
(* as they act on character positions.                                     *)
(*                                                                         *)
(* Every await of the code is a step boundary: a promise that settles is   *)
(* one step, the continuation that resumes after it is another, and steps  *)
(* of other requests run in between.                                       *)
(*                                                                         *)
(* express and the MongoDB driver are not part of app.js.  A request may   *)
(* arrive with req.body undefined; mongoose.connection.db is undefined     *)
(* until the connection is established; db.collection(name) with a name    *)
(* that is not a string may throw or return a handle.                      *)
(***************************************************************************)
EXTENDS Integers, Sequences, FiniteSets, TLC

\* ------------------------------------------------------------------ bounds
MaxTextLen == 3
NumReqs == 2
MaxPipeline == 1

\* ------------------------------------------------------- JavaScript values
Undef == [t |-> "undefined"]
Null == [t |-> "null"]
True == [t |-> "true"]
Str(s) == [t |-> "string", s |-> s]
Obj(c, i, q) == [t |-> "object", collection |-> c, intent |-> i, query |-> q]
EmptyObj == Obj(Undef, Undef, Undef)
Arr(e) == [t |-> "array", e |-> e, collection |-> Undef, intent |-> Undef]

\* analysis.collection / analysis.intent / analysis.query: a property read.
\* A primitive (true, a string) has none of these properties; an array has
\* no query property.
Get(v, k) ==
  IF v.t = "object" THEN
    (IF k = "collection" THEN v.collection
     ELSE IF k = "intent" THEN v.intent ELSE v.query)
  ELSE IF v.t = "array" THEN
    (IF k = "collection" THEN v.collection
     ELSE IF k = "intent" THEN v.intent ELSE Undef)
  ELSE Undef

\* analysis.collection = x / analysis.intent = x: a property write.  The file
\* is a sloppy-mode CommonJS module, so a write to a primitive is ignored.
Put(v, k, x) ==
  IF v.t \in {"object", "array"} THEN
    (IF k = "collection" THEN [v EXCEPT !.collection = x]
     ELSE IF k = "intent" THEN [v EXCEPT !.intent = x]
     ELSE IF v.t = "object" THEN [v EXCEPT !.query = x] ELSE v)
  ELSE v

\* !v
Falsy(v) == v.t \in {"undefined", "null"} \/ (v.t = "string" /\ v.s = "")

\* ---------------------------------------------------------------- lexicon
LB == "{"
RB == "}"
LK == "["
RK == "]"
COMMA == ","
KCollection == "\"collection\":"
KIntent == "\"intent\":"
KQuery == "\"query\":"
TTrue == "true"
Prose == "Here you go: "
KeyTokens == {KCollection, KIntent, KQuery}
StrWords == {"list", "search", "aggregate", "drop", "articles", "categories", "users"}
Quote(w) == "\"" \o w \o "\""
StrTokens == {Quote(w) : w \in StrWords}
Unquote(tok) == CHOOSE w \in StrWords : Quote(w) = tok
KeyName(tok) ==
  IF tok = KCollection THEN "collection"
  ELSE IF tok = KIntent THEN "intent" ELSE "query"

\* ------------------------------------------------------------- JSON.parse
\* JSON.parse on the concatenation of a fragment sequence.  A value is true,
\* a string, an object { "k": value, ... } or an array [ value, ... ]; the
\* whole input has to be one value, anything else is a SyntaxError.  A
\* repeated key keeps its last value.
Fail == [ok |-> FALSE, v |-> Null, rest |-> <<>>]
Done(v, rest) == [ok |-> TRUE, v |-> v, rest |-> rest]

RECURSIVE ParseValue(_), ParseMembers(_, _), ParseElements(_, _)
ParseValue(ts) ==
  IF ts = <<>> THEN Fail
  ELSE LET h == Head(ts)
           r == Tail(ts)
       IN IF h = TTrue THEN Done(True, r)
          ELSE IF h \in StrTokens THEN Done(Str(Unquote(h)), r)
          ELSE IF h = LB THEN
            (IF r # <<>> /\ Head(r) = RB THEN Done(EmptyObj, Tail(r))
             ELSE ParseMembers(r, EmptyObj))
          ELSE IF h = LK THEN
            (IF r # <<>> /\ Head(r) = RK THEN Done(Arr(<<>>), Tail(r))
             ELSE ParseElements(r, <<>>))
          ELSE Fail

ParseMembers(ts, acc) ==
  IF ts = <<>> \/ Head(ts) \notin KeyTokens THEN Fail
  ELSE LET pv == ParseValue(Tail(ts))
       IN IF ~pv.ok \/ pv.rest = <<>> THEN Fail
          ELSE LET acc2 == Put(acc, KeyName(Head(ts)), pv.v)
               IN IF Head(pv.rest) = RB THEN Done(acc2, Tail(pv.rest))
                  ELSE IF Head(pv.rest) = COMMA
                       THEN ParseMembers(Tail(pv.rest), acc2)
                  ELSE Fail

ParseElements(ts, acc) ==
  LET pv == ParseValue(ts)
  IN IF ~pv.ok \/ pv.rest = <<>> THEN Fail
     ELSE LET acc2 == Append(acc, pv.v)
          IN IF Head(pv.rest) = RK THEN Done(Arr(acc2), Tail(pv.rest))
             ELSE IF Head(pv.rest) = COMMA
                  THEN ParseElements(Tail(pv.rest), acc2)
             ELSE Fail

Thrown == [t |-> "throw"]
JSONparse(ts) ==
  LET p == ParseValue(ts)
  IN IF p.ok /\ p.rest = <<>> THEN p.v ELSE Thrown

\* ------------------------------------------------------ String.prototype
\* Positions are 0-based; -1 is "not found".
indexOf(text, tok) ==
  IF \E i \in 1..Len(text) : text[i] = tok
  THEN (CHOOSE i \in 1..Len(text) :
          text[i] = tok /\ \A j \in 1..(i - 1) : text[j] # tok) - 1
  ELSE -1

lastIndexOf(text, tok) ==
  IF \E i \in 1..Len(text) : text[i] = tok
  THEN (CHOOSE i \in 1..Len(text) :
          text[i] = tok /\ \A j \in (i + 1)..Len(text) : text[j] # tok) - 1
  ELSE -1

Clamp(n, len) == IF n < 0 THEN 0 ELSE IF n > len THEN len ELSE n

\* text.substring(a, b): both ends clamped to [0, length], and swapped when
\* a > b.
substring(text, a, b) ==
  LET ca == Clamp(a, Len(text))
      cb == Clamp(b, Len(text))
      lo == IF ca <= cb THEN ca ELSE cb
      hi == IF ca <= cb THEN cb ELSE ca
  IN SubSeq(text, lo + 1, hi)

\* ------------------------------------------------------------ extractJSON
extractJSONAnd(text) ==
  LET start == indexOf(text, LB)
      end == lastIndexOf(text, RB)
  IN IF start = -1 /\ end = -1 THEN Null
     ELSE LET parsed == JSONparse(substring(text, start, end + 1))
          IN IF parsed.t = "throw" THEN Null ELSE parsed

extractJSON(text) ==
  LET start == indexOf(text, LB)
      end == lastIndexOf(text, RB)
  IN IF start = -1 \/ end = -1 THEN Null
     ELSE LET parsed == JSONparse(substring(text, start, end + 1))
          IN IF parsed.t = "throw" THEN Null ELSE parsed

\* ---------------------------------------------------------- analyzeIntent
Range(f) == {f[i] : i \in DOMAIN f}

\* availableCollections.includes(v): SameValueZero against collection names.
Includes(colls, v) == v.t = "string" /\ v.s \in Range(colls)

\* availableCollections.includes("articles") ? "articles"
\*                                            : availableCollections[0]
DefaultCollection(colls) ==
  IF Includes(colls, Str("articles")) THEN Str("articles")
  ELSE IF Len(colls) > 0 THEN Str(colls[1])
  ELSE Undef

Intents == {"list", "search", "aggregate"}

\* ["list", "search", "aggregate"].includes(v)
ValidIntent(v) == v.t = "string" /\ v.s \in Intents

\* The object the catch block returns.
FallbackIntent(colls) == Obj(DefaultCollection(colls), Str("list"), EmptyObj)

\* The two validation steps applied to a truthy extracted value.
Validate(a, colls) ==
  LET c == Get(a, "collection")
      a1 == IF Falsy(c) \/ ~Includes(colls, c)
            THEN Put(a, "collection", DefaultCollection(colls))
            ELSE a
  IN IF ~ValidIntent(Get(a1, "intent"))
     THEN Put(a1, "intent", Str("list"))
     ELSE a1

\* reply.err: model.call rejected.  Otherwise reply.content is the text.
analyzeIntent(colls, reply) ==
  IF reply.err THEN FallbackIntent(colls)
  ELSE LET a == extractJSON(reply.content)
       IN IF Falsy(a) THEN FallbackIntent(colls)
          ELSE Validate(a, colls)

\* ------------------------------------------------------ executeMongoQuery
NoCall == [op |-> "none", collection |-> Undef, query |-> Undef]
StoreCall(op, a) ==
  [op |-> op, collection |-> Get(a, "collection"), query |-> Get(a, "query")]

executeMongoQueryNoArrayCheck(a) ==
  LET intent == Get(a, "intent")
  IN IF intent.t = "string" /\ intent.s = "aggregate"
     THEN StoreCall("aggregate", a)
     ELSE IF intent.t = "string" /\ intent.s \in {"search", "list"}
     THEN StoreCall("find", a)
     ELSE NoCall

\* The store call the function issues; NoCall is
\* throw new Error("Type de requête non supporté").
executeMongoQuery(a) ==
  LET intent == Get(a, "intent")
  IN IF intent.t = "string" /\ intent.s = "aggregate"
        /\ Get(a, "query").t = "array"
     THEN StoreCall("aggregate", a)
     ELSE IF intent.t = "string" /\ intent.s \in {"search", "list"}
     THEN StoreCall("find", a)
     ELSE NoCall

\* ------------------------------------------------------------ environment
\* What listCollections can answer.
Catalogs ==
  { <<>>, <<"articles">>, <<"categories", "articles">>, <<"categories", "users">> }

SeqsUpTo(S, n) == UNION {[1..k -> S] : k \in 0..n}

\* What the language model writes when it writes JSON.
RECURSIVE Join(_)
Join(parts) ==
  IF parts = <<>> THEN <<>>
  ELSE IF Len(parts) = 1 THEN parts[1]
  ELSE parts[1] \o <<COMMA>> \o Join(Tail(parts))

RECURSIVE Serialize(_)
Serialize(v) ==
  IF v.t = "true" THEN <<TTrue>>
  ELSE IF v.t = "string" THEN <<Quote(v.s)>>
  ELSE IF v.t = "array"
  THEN <<LK>> \o Join([i \in 1..Len(v.e) |-> Serialize(v.e[i])]) \o <<RK>>
  ELSE LET mi == IF v.intent.t = "undefined" THEN <<>>
                 ELSE << <<KIntent>> \o Serialize(v.intent) >>
           mc == IF v.collection.t = "undefined" THEN <<>>
                 ELSE << <<KCollection>> \o Serialize(v.collection) >>
           mq == IF v.query.t = "undefined" THEN <<>>
                 ELSE << <<KQuery>> \o Serialize(v.query) >>
       IN <<LB>> \o Join(mi \o mc \o mq) \o <<RB>>

IntentVals == {Undef, True} \cup {Str(w) : w \in Intents \cup {"drop"}}
CollectionVals == {Undef, True} \cup {Str(w) : w \in {"articles", "categories", "users"}}
Stage == Obj(Undef, Undef, True)
QueryVals ==
  {Undef, True, EmptyObj, Obj(Str("articles"), Undef, Undef)}
    \cup {Arr(e) : e \in SeqsUpTo({Stage}, MaxPipeline)}
ModelObjects ==
  {Obj(c, i, q) : c \in CollectionVals, i \in IntentVals, q \in QueryVals}

ShortAlphabet == {LB, RB, LK, RK, COMMA, TTrue, Prose, KIntent, Quote("search")}

Completions ==
  SeqsUpTo(ShortAlphabet, MaxTextLen)
    \cup {pre \o Serialize(o) \o post :
            pre \in {<<>>, <<Prose>>}, post \in {<<>>, <<Prose>>},
            o \in ModelObjects}

\* What the model and the store answer when several requests are in flight.
FewCompletions ==
  { <<Prose>>,
    Serialize(Obj(Str("articles"), Str("aggregate"), Arr(<<>>))),
    Serialize(Obj(Undef, Str("aggregate"), EmptyObj)) }
FewCatalogs == { <<"articles">> }

\* req.body: undefined, or an object whose question is absent, empty or a
\* text.
Body(q) == [t |-> "object", question |-> q]
Bodies == {Undef} \cup {Body(q) : q \in {Undef, Str(""), Str("max stock ?")}}

\* ------------------------------------------------------------------ state
VARIABLES
  env,       \* who sends requests, and what the collaborators can answer
  db,        \* mongoose.connection.db: "connecting" (undefined), "ready",
             \* or "exited" once the connection failure has ended the process
  pc,        \* per request: where its handler is suspended
  body,      \* per request: req.body
  colls,     \* per request: availableCollections
  reply,     \* per request: outcome of model.call
  analysis,  \* per request: value returned by analyzeIntent
  call,      \* per request: the store call issued by executeMongoQuery
  err,       \* per request: message of the error executeMongoQuery rejected with
  failed,    \* per request: the steps that threw or were answered with an error
  log,       \* per request: I/O calls, their answers and the response, in order
  resp,      \* per request: the HTTP response sent by the handler
  hung       \* per request: the awaited collaborator will never answer

vars ==
  <<env, db, pc, body, colls, reply, analysis, call, err, failed, log, resp, hung>>

Reqs == 1..NumReqs

NoReply == [err |-> FALSE, content |-> <<>>]
NoResp == [status |-> 0, error |-> FALSE, details |-> "", analysis |-> Undef]
\* "Type de requête non supporté"
UnsupportedMsg == "Type de requete non supporte"
\* The rejection of find(...).toArray() or aggregate(...).toArray().
StoreMsg == "store error"
\* The TypeError of reading .collection of undefined, or the driver's error
\* on the collection name.
HandleMsg == "no collection handle"

InitRequests ==
  /\ db = "connecting"
  /\ pc = [r \in Reqs |-> "idle"]
  /\ body = [r \in Reqs |-> Undef]
  /\ colls = [r \in Reqs |-> <<>>]
  /\ reply = [r \in Reqs |-> NoReply]
  /\ analysis = [r \in Reqs |-> Undef]
  /\ call = [r \in Reqs |-> NoCall]
  /\ err = [r \in Reqs |-> ""]
  /\ failed = [r \in Reqs |-> {}]
  /\ log = [r \in Reqs |-> <<>>]
  /\ resp = [r \in Reqs |-> NoResp]
  /\ hung = [r \in Reqs |-> FALSE]

\* One request, every completion and every catalog.
Init ==
  /\ env = [clients |-> {1}, answers |-> "all"]
  /\ InitRequests

\* Concurrent requests.
InitConc ==
  /\ env = [clients |-> Reqs, answers |-> "few"]
  /\ InitRequests

\* What model.call and listCollections can answer in environment e.
CompletionsOf(e) == IF e.answers = "all" THEN Completions ELSE FewCompletions
CatalogsOf(e) == IF e.answers = "all" THEN Catalogs ELSE FewCatalogs

\* mongoose.connect(mongoURI).then(...)
MongoConnected ==
  /\ db = "connecting"
  /\ db' = "ready"
  /\ UNCHANGED <<env, pc, body, colls, reply, analysis, call, err, failed, log, resp, hung>>

\* mongoose.connect(mongoURI).catch(...): process.exit(1)
MongoConnectFailed ==
  /\ db = "connecting"
  /\ db' = "exited"
  /\ UNCHANGED <<env, pc, body, colls, reply, analysis, call, err, failed, log, resp, hung>>

\* !req.body.question, for a body that is an object
MissingQuestion(b) == Falsy(b.question)

\* res.status(500).json({ error, details: err.message })
Error500(msg) == [status |-> 500, error |-> TRUE, details |-> msg, analysis |-> Undef]

PostChatbotNoAwait(r) ==
  /\ db # "exited"
  /\ r \in env.clients
  /\ pc[r] = "idle"
  /\ \E b \in Bodies :
       /\ body' = [body EXCEPT ![r] = b]
       /\ IF b.t = "undefined"
          THEN /\ pc' = [pc EXCEPT ![r] = "rejected"]
               /\ UNCHANGED <<resp, log, colls, failed>>
          ELSE IF MissingQuestion(b)
          THEN /\ resp' = [resp EXCEPT ![r] =
                      [status |-> 400, error |-> TRUE, details |-> "", analysis |-> Undef]]
               /\ log' = [log EXCEPT ![r] = <<"respond">>]
               /\ pc' = [pc EXCEPT ![r] = "done"]
               /\ UNCHANGED <<colls, failed>>
          ELSE IF db = "ready"
          THEN /\ log' = [log EXCEPT ![r] = <<"listCollections", "model.call">>]
               /\ pc' = [pc EXCEPT ![r] = "listing"]
               /\ UNCHANGED <<resp, colls, failed>>
          ELSE /\ colls' = [colls EXCEPT ![r] = <<>>]
               /\ failed' = [failed EXCEPT ![r] = @ \cup {"getCollections"}]
               /\ pc' = [pc EXCEPT ![r] = "listed"]
               /\ UNCHANGED <<resp, log>>
  /\ UNCHANGED <<env, db, reply, analysis, call, err, hung>>

\* The handler up to its first await.  Reading req.body.question of an
\* undefined body throws and the handler's promise rejects: the handler sends
\* nothing.  A missing question is answered with 400.  Otherwise analyzeIntent
\* calls getCollections, which awaits listCollections().toArray(); while
\* mongoose.connection.db is undefined that expression throws inside the try
\* and getCollections returns [] without a listing.
PostChatbot(r) ==
  /\ db # "exited"
  /\ r \in env.clients
  /\ pc[r] = "idle"
  /\ \E b \in Bodies :
       /\ body' = [body EXCEPT ![r] = b]
       /\ IF b.t = "undefined"
          THEN /\ pc' = [pc EXCEPT ![r] = "rejected"]
               /\ UNCHANGED <<resp, log, colls, failed>>
          ELSE IF MissingQuestion(b)
          THEN /\ resp' = [resp EXCEPT ![r] =
                      [status |-> 400, error |-> TRUE, details |-> "", analysis |-> Undef]]
               /\ log' = [log EXCEPT ![r] = <<"respond">>]
               /\ pc' = [pc EXCEPT ![r] = "done"]
               /\ UNCHANGED <<colls, failed>>
          ELSE IF db = "ready"
          THEN /\ log' = [log EXCEPT ![r] = <<"listCollections">>]
               /\ pc' = [pc EXCEPT ![r] = "listing"]
               /\ UNCHANGED <<resp, colls, failed>>
          ELSE /\ colls' = [colls EXCEPT ![r] = <<>>]
               /\ failed' = [failed EXCEPT ![r] = @ \cup {"getCollections"}]
               /\ pc' = [pc EXCEPT ![r] = "listed"]
               /\ UNCHANGED <<resp, log>>
  /\ UNCHANGED <<env, db, reply, analysis, call, err, hung>>

\* listCollections answers: getCollections resumes and returns the names, or
\* catches the rejection and returns [].
ListCollectionsReturn(r) ==
  /\ db # "exited"
  /\ pc[r] = "listing"
  /\ ~hung[r]
  /\ \/ \E c \in CatalogsOf(env) :
          /\ colls' = [colls EXCEPT ![r] = c]
          /\ failed' = failed
     \/ /\ colls' = [colls EXCEPT ![r] = <<>>]
        /\ failed' = [failed EXCEPT ![r] = @ \cup {"getCollections"}]
  /\ log' = [log EXCEPT ![r] = Append(@, "listCollections.ret")]
  /\ pc' = [pc EXCEPT ![r] = "listed"]
  /\ UNCHANGED <<env, db, body, reply, analysis, call, err, resp, hung>>

\* analyzeIntent resumes after await getCollections(): it builds the prompt
\* and awaits model.call.
CallModel(r) ==
  /\ db # "exited"
  /\ pc[r] = "listed"
  /\ log' = [log EXCEPT ![r] = Append(@, "model.call")]
  /\ pc' = [pc EXCEPT ![r] = "calling"]
  /\ UNCHANGED <<env, db, body, colls, reply, analysis, call, err, failed, resp, hung>>

\* model.call answers or rejects: analyzeIntent resumes, extracts and
\* validates (or falls back in its catch) and returns.
ModelCallReturn(r) ==
  /\ db # "exited"
  /\ pc[r] = "calling"
  /\ ~hung[r]
  /\ \/ \E text \in CompletionsOf(env) :
          /\ reply' = [reply EXCEPT ![r] = [err |-> FALSE, content |-> text]]
          /\ failed' = failed
     \/ /\ reply' = [reply EXCEPT ![r] = [err |-> TRUE, content |-> <<>>]]
        /\ failed' = [failed EXCEPT ![r] = @ \cup {"model.call"}]
  /\ analysis' = [analysis EXCEPT ![r] = analyzeIntent(colls[r], reply'[r])]
  /\ log' = [log EXCEPT ![r] = Append(@, "model.call.ret")]
  /\ pc' = [pc EXCEPT ![r] = "analyzed"]
  /\ UNCHANGED <<env, db, body, colls, call, err, resp, hung>>

\* const db = mongoose.connection.db; db.collection(analysis.collection):
\* the outcomes of obtaining the handle.
HandleOutcomes(a) ==
  IF db # "ready" THEN {"throws"}
  ELSE IF Get(a, "collection").t = "string" THEN {"handle"}
  ELSE {"handle", "throws"}

\* executeMongoQuery rejects with msg; the handler is still awaiting it.
Reject(r, msg) ==
  /\ err' = [err EXCEPT ![r] = msg]
  /\ pc' = [pc EXCEPT ![r] = "settled"]
  /\ UNCHANGED <<call, log>>

\* The handler resumes after await analyzeIntent() and calls
\* executeMongoQuery, which obtains the handle and then either awaits a store
\* call or throws.
Dispatch(r) ==
  /\ db # "exited"
  /\ pc[r] = "analyzed"
  /\ \E h \in HandleOutcomes(analysis[r]) :
       IF h = "throws"
       THEN /\ failed' = [failed EXCEPT ![r] = @ \cup {"handle"}]
            /\ Reject(r, HandleMsg)
       ELSE LET c == executeMongoQuery(analysis[r])
            IN /\ failed' = failed
               /\ IF c.op = "none"
                  THEN Reject(r, UnsupportedMsg)
                  ELSE /\ call' = [call EXCEPT ![r] = c]
                       /\ log' = [log EXCEPT ![r] = Append(@, c.op)]
                       /\ pc' = [pc EXCEPT ![r] = "querying"]
                       /\ err' = err
  /\ UNCHANGED <<env, db, body, colls, reply, analysis, resp, hung>>

\* The store answers the find or the aggregate: executeMongoQuery resumes
\* and returns the documents, or logs the rejection and rethrows it.
StoreReturn(r) ==
  /\ db # "exited"
  /\ pc[r] = "querying"
  /\ ~hung[r]
  /\ \/ /\ err' = err
        /\ failed' = failed
     \/ /\ err' = [err EXCEPT ![r] = StoreMsg]
        /\ failed' = [failed EXCEPT ![r] = @ \cup {"store"}]
  /\ log' = [log EXCEPT ![r] = Append(@, "store.ret")]
  /\ pc' = [pc EXCEPT ![r] = "settled"]
  /\ UNCHANGED <<env, db, body, colls, reply, analysis, call, resp, hung>>

\* The handler resumes after await executeMongoQuery(): 200 with the
\* analysis, or its catch answers 500 with the message.
Respond(r) ==
  /\ db # "exited"
  /\ pc[r] = "settled"
  /\ resp' = [resp EXCEPT ![r] =
       IF err[r] = ""
       THEN [status |-> 200, error |-> FALSE, details |-> "", analysis |-> analysis[r]]
       ELSE Error500(err[r])]
  /\ log' = [log EXCEPT ![r] = Append(@, "respond")]
  /\ pc' = [pc EXCEPT ![r] = "done"]
  /\ UNCHANGED <<env, db, body, colls, reply, analysis, call, err, failed, hung>>

\* The collaborator a request awaits never answers: no call in app.js
\* passes a timeout or a signal.
Hang(r) ==
  /\ db # "exited"
  /\ pc[r] \in {"listing", "calling", "querying"}
  /\ ~hung[r]
  /\ hung' = [hung EXCEPT ![r] = TRUE]
  /\ UNCHANGED <<env, db, pc, body, colls, reply, analysis, call, err, failed, log, resp>>

Next ==
  \/ MongoConnected
  \/ MongoConnectFailed
  \/ \E r \in Reqs :
       \/ PostChatbot(r)
       \/ ListCollectionsReturn(r)
       \/ CallModel(r)
       \/ ModelCallReturn(r)
       \/ Dispatch(r)
       \/ StoreReturn(r)
       \/ Respond(r)
       \/ Hang(r)

Spec == Init /\ [][Next]_vars
SpecConc == InitConc /\ [][Next]_vars

\* Every step that is enabled is eventually taken: the event loop runs every
\* continuation whose awaited call has settled, and a collaborator that is
\* going to answer does answer.
FairSpec == InitConc /\ [][Next]_vars /\ \A r \in Reqs :
  /\ WF_vars(PostChatbot(r))
  /\ WF_vars(ListCollectionsReturn(r))
  /\ WF_vars(CallModel(r))
  /\ WF_vars(ModelCallReturn(r))
  /\ WF_vars(Dispatch(r))
  /\ WF_vars(StoreReturn(r))
  /\ WF_vars(Respond(r))

\* ================================================================= claims
IsStr(v, w) == v.t = "string" /\ v.s = w
Engaged(r) == r \in env.clients /\ pc[r] # "idle"
\* req.body carries no question.
NoQuestion(b) == b.t = "undefined" \/ Falsy(b.question)
\* analyzeIntent has returned for request r.
Returned(r) == \E i \in 1..Len(log[r]) : log[r][i] = "model.call.ret"
\* executeMongoQuery has been called for request r.
Executed(r) == Returned(r) /\ pc[r] # "analyzed"
StoreOps(r) == {i \in 1..Len(log[r]) : log[r][i] \in {"find", "aggregate"}}
StoreAnswered(r) == \E i \in 1..Len(log[r]) : log[r][i] = "store.ret"
NoBracePair(text) == LB \notin Range(text) \/ RB \notin Range(text)
Last(s) == s[Len(s)]
IsPrefix(s, t) == Len(s) <= Len(t) /\ SubSeq(t, 1, Len(s)) = s

\* C1: when model.call fails, the request ends with a 500 carrying error and
\* details, never with a 200, and no find or aggregate is issued for it.
C1_ModelFailureEndsIn500 ==
  \A r \in Reqs :
    "model.call" \in failed[r] =>
      /\ StoreOps(r) = {}
      /\ call[r].op = "none"
      /\ pc[r] = "done" =>
           resp[r].status = 500 /\ resp[r].error /\ resp[r].details # ""

\* C2: with an empty discovered collection set, the collection of the value
\* analyzeIntent returns is a defined sentinel, never undefined.
C2_EmptyCatalogGivesSentinel ==
  \A r \in Reqs :
    (Returned(r) /\ colls[r] = <<>>) =>
      Get(analysis[r], "collection").t # "undefined"

\* C3: a completion without "{" or without "}" makes extractJSON return null,
\* analyzeIntent returns intent "list" with query {}, and the request that
\* received the completion ends with a 200 carrying that analysis, whatever
\* the discovered set, when the store answers the find without error.
C3_NoBracesFallsBackTo200 ==
  \A r \in Reqs :
    (Returned(r) /\ ~reply[r].err /\ NoBracePair(reply[r].content)) =>
      /\ extractJSON(reply[r].content).t = "null"
      /\ IsStr(Get(analysis[r], "intent"), "list")
      /\ Get(analysis[r], "query") = EmptyObj
      /\ StoreOps(r) # {} => call[r].op = "find"
      /\ (pc[r] = "done" /\ StoreAnswered(r) /\ "store" \notin failed[r]) =>
           /\ resp[r].status = 200
           /\ ~resp[r].error
           /\ IsStr(Get(resp[r].analysis, "intent"), "list")
           /\ Get(resp[r].analysis, "query") = EmptyObj

C3_Witness ==
  \E r \in Reqs :
    /\ pc[r] = "done"
    /\ resp[r].status = 200
    /\ ~reply[r].err
    /\ Len(reply[r].content) > 1
    /\ NoBracePair(reply[r].content)
    /\ LB \in Range(reply[r].content)

\* C4: with a non-empty discovered set, the collection of the value
\* analyzeIntent returns is a member of that set: the model's collection when
\* that is a member, otherwise "articles" when discovered, otherwise the first
\* discovered name.
C4_CollectionIsDiscovered ==
  \A r \in Reqs :
    (Returned(r) /\ colls[r] # <<>>) =>
      LET c == Get(analysis[r], "collection")
          raw == IF reply[r].err THEN Null ELSE extractJSON(reply[r].content)
          m == Get(raw, "collection")
      IN /\ Includes(colls[r], c)
         /\ IF Includes(colls[r], m) THEN c.s = m.s
            ELSE IF "articles" \in Range(colls[r]) THEN c.s = "articles"
            ELSE c.s = colls[r][1]

\* C5: the value analyzeIntent returns has its intent in
\* {list, search, aggregate}: a parsed intent of that set is kept, any other
\* or absent intent becomes list.
C5_IntentIsEnumerated ==
  \A r \in Reqs :
    Returned(r) =>
      LET k == Get(analysis[r], "intent")
          raw == IF reply[r].err THEN Null ELSE extractJSON(reply[r].content)
          m == Get(raw, "intent")
      IN /\ k.t = "string"
         /\ k.s \in {"list", "search", "aggregate"}
         /\ IF m.t = "string" /\ m.s \in {"list", "search", "aggregate"}
            THEN k.s = m.s
            ELSE k.s = "list"

\* The two-way branch on the intent of request r: aggregate with an array
\* query issues exactly one aggregate on the intent's collection with that
\* pipeline; list or search issues exactly one find on the intent's
\* collection with the query; anything else issues no store call, fails with
\* the unsupported-shape error and the request ends with a 500.
TwoWayBranch(r) ==
  LET a == analysis[r]
      k == Get(a, "intent")
      q == Get(a, "query")
      issued == [i \in StoreOps(r) |-> log[r][i]]
  IN IF IsStr(k, "aggregate") /\ q.t = "array"
     THEN /\ Cardinality(StoreOps(r)) = 1
          /\ Range(issued) = {"aggregate"}
          /\ call[r].op = "aggregate"
          /\ call[r].collection = Get(a, "collection")
          /\ call[r].query = q
     ELSE IF IsStr(k, "list") \/ IsStr(k, "search")
     THEN /\ Cardinality(StoreOps(r)) = 1
          /\ Range(issued) = {"find"}
          /\ call[r].op = "find"
          /\ call[r].collection = Get(a, "collection")
          /\ call[r].query = q
     ELSE /\ StoreOps(r) = {}
          /\ call[r].op = "none"
          /\ err[r] = UnsupportedMsg
          /\ pc[r] \in {"settled", "done"}
          /\ pc[r] = "done" =>
               /\ resp[r].status = 500
               /\ resp[r].error
               /\ resp[r].details = UnsupportedMsg

\* C6 as stated: executeMongoQuery is a two-way branch on the intent alone.
C6_DispatchIsTwoWay ==
  \A r \in Reqs : Executed(r) => TwoWayBranch(r)

\* C6 as amended: when executeMongoQuery obtains the collection handle it is
\* the two-way branch on the intent; when it cannot (the connection is not
\* established, or the driver refuses a collection name that is not a
\* string) it issues no store call, whatever the intent, and the request
\* ends with a 500 carrying that error.
C6_DispatchIsTwoWayGivenHandle ==
  \A r \in Reqs :
    Executed(r) =>
      IF "handle" \in failed[r]
      THEN /\ StoreOps(r) = {}
           /\ call[r].op = "none"
           /\ err[r] = HandleMsg
           /\ pc[r] \in {"settled", "done"}
           /\ pc[r] = "done" =>
                /\ resp[r].status = 500
                /\ resp[r].error
                /\ resp[r].details = HandleMsg
      ELSE TwoWayBranch(r)

C6_Witness ==
  \E r \in Reqs :
    /\ pc[r] = "done"
    /\ "handle" \notin failed[r]
    /\ IsStr(Get(analysis[r], "intent"), "aggregate")
    /\ Get(analysis[r], "query").t = "object"
    /\ resp[r].status = 500
    /\ resp[r].details = UnsupportedMsg

\* C7: a request whose body has no question (absent or empty) ends with a 400
\* carrying an error, and no listing, model call, find or aggregate is issued
\* for it.
C7_MissingQuestionIs400 ==
  \A r \in Reqs :
    (Engaged(r) /\ NoQuestion(body[r])) =>
      /\ pc[r] = "done"
      /\ resp[r].status = 400
      /\ resp[r].error
      /\ log[r] = <<"respond">>
      /\ call[r].op = "none"
      /\ failed[r] = {}

\* C8: within an accepted request the listing, the model call and the store
\* call are issued in that order, each at most once and each only after the
\* previous one has answered, and the response comes last; under any
\* interleaving of concurrent requests.
PipelineHeads ==
  { <<"listCollections", "listCollections.ret", "model.call", "model.call.ret">>,
    <<"model.call", "model.call.ret">> }
PipelineTails ==
  {<<op, "store.ret", "respond">> : op \in {"find", "aggregate"}}
    \cup {<<"respond">>}
PipelineRuns == {h \o t : h \in PipelineHeads, t \in PipelineTails}
LastIn(s, S) == Len(s) > 0 /\ Last(s) \in S

C8_StagesInOrderOnce ==
  \A r \in Reqs :
    (Engaged(r) /\ ~NoQuestion(body[r])) =>
      /\ \E run \in PipelineRuns : IsPrefix(log[r], run)
      /\ pc[r] = "listing" <=> LastIn(log[r], {"listCollections"})
      /\ pc[r] = "listed" <=> (log[r] = <<>> \/ LastIn(log[r], {"listCollections.ret"}))
      /\ pc[r] = "calling" <=> LastIn(log[r], {"model.call"})
      /\ pc[r] \in {"analyzed", "settled"} <=>
           LastIn(log[r], {"model.call.ret", "store.ret"})
      /\ pc[r] = "querying" <=> LastIn(log[r], {"find", "aggregate"})
      /\ pc[r] = "done" <=> LastIn(log[r], {"respond"})
      /\ resp[r].status # 0 <=> pc[r] = "done"

C8_Witness ==
  \E r1, r2 \in Reqs :
    /\ r1 # r2
    /\ pc[r1] = "querying"
    /\ pc[r2] = "listed"
    /\ LastIn(log[r2], {"listCollections.ret"})
    /\ ~hung[r1]

\* C9: every accepted request eventually receives a response (as long as the
\* process lives), even when the model or the store never answers.
C9_AcceptedIsAnswered ==
  \A r \in Reqs :
    (pc[r] \in {"listing", "listed", "calling", "analyzed", "querying", "settled"})
      ~> (pc[r] = "done" \/ db = "exited")

\* C10: an aggregate is only issued with an array query, and a find only with
\* a filter object, never with an array, a missing value or a scalar.
C10_QueryShape ==
  \A r \in Reqs :
    /\ call[r].op = "aggregate" => call[r].query.t = "array"
    /\ call[r].op = "find" => call[r].query.t = "object"

====
